---- MODULE Spec2Model ----
(***************************************************************************)
(* SmartDocFinder: the incremental indexing pipeline (preprocess.py,       *)
(* cache_manager.py, index_manager.py) and the search service (api.py,     *)
(* search_engine.py, embedder.py) as one state machine.                    *)
(*                                                                         *)
(* Text is a sequence of one-character strings.  Fixed-point numbers:      *)
(* embedding coordinates are in units of 1/VecScale, cosine similarities   *)
(* in units of 1/(VecScale*VecScale).                                      *)
(***************************************************************************)
EXTENDS Integers, Sequences, FiniteSets, TLC

\* ---------------------------------------------------------------- bounds
\* Largest value of the wall clock read by upsert_embedding.
MaxClock == 2
\* Largest --max-docs value tried by the entry point (0 = no cap).
MaxCap == 1

\* ------------------------------------------------------------ the corpus
\* A path that holds no file; a lookup that found nothing.
NoFile == [missing |-> TRUE]
None == [none |-> TRUE]

\* Relative paths of the *.txt files the corpus directory may hold.
Paths == { <<"pets", "d1.txt">>, <<"d2.txt">> }

\* Raw file contents the environment may write.
RawTexts == { <<"A">>, <<"<", "i", ">", "a">>, <<"a", " ", "\n", "B">> }

\* The directory passed as --docs-dir, resolved, and the directories it can
\* be: the corpus directory may be moved between two runs.
DocsDir == "/data/docs"
DocsDirs == { DocsDir, "/mnt/docs" }

\* ------------------------------------------------------- text functions
WhiteSpace == { " ", "\n", "\t" }

\* str.lower() on the model's alphabet.
LowerChar(c) == IF c = "A" THEN "a" ELSE IF c = "B" THEN "b" ELSE c

Lower(s) == [k \in 1..Len(s) |-> LowerChar(s[k])]

\* Position of the first ">" at or after k, or 0.
RECURSIVE FirstGt(_, _)
FirstGt(s, k) ==
    IF k > Len(s) THEN 0
    ELSE IF s[k] = ">" THEN k
    ELSE FirstGt(s, k + 1)

\* re.sub(r"<[^>]+>", " ", s), scanning from position k.
RECURSIVE SubTags(_, _)
SubTags(s, k) ==
    IF k > Len(s) THEN <<>>
    ELSE IF s[k] = "<" /\ FirstGt(s, k + 1) > k + 1
         THEN <<" ">> \o SubTags(s, FirstGt(s, k + 1) + 1)
         ELSE <<s[k]>> \o SubTags(s, k + 1)

\* re.sub(r"\s+", " ", s), scanning from position k.
RECURSIVE SubSpaces(_, _)
SubSpaces(s, k) ==
    IF k > Len(s) THEN <<>>
    ELSE IF s[k] \in WhiteSpace
         THEN IF k > 1 /\ s[k - 1] \in WhiteSpace
              THEN SubSpaces(s, k + 1)
              ELSE <<" ">> \o SubSpaces(s, k + 1)
         ELSE <<s[k]>> \o SubSpaces(s, k + 1)

RECURSIVE LStrip(_)
LStrip(s) ==
    IF s # <<>> /\ Head(s) \in WhiteSpace THEN LStrip(Tail(s)) ELSE s

RECURSIVE RStrip(_)
RStrip(s) ==
    IF s # <<>> /\ s[Len(s)] \in WhiteSpace
    THEN RStrip(SubSeq(s, 1, Len(s) - 1))
    ELSE s

\* str.strip()
Strip(s) == RStrip(LStrip(s))

clean_text(raw) == Strip(SubSpaces(SubTags(Lower(raw), 1), 1))

\* len(text.split()): the number of maximal runs of non-whitespace.
SplitCount(s) ==
    Cardinality({ k \in 1..Len(s) :
        /\ s[k] \notin WhiteSpace
        /\ (k = 1 \/ s[k - 1] \in WhiteSpace) })

\* The lowercase letters, in code-point order.
LowerLetters == << "a", "b", "c", "d", "e", "f", "g", "h", "i", "j", "k", "l", "m",
                  "n", "o", "p", "q", "r", "s", "t", "u", "v", "w", "x", "y", "z" >>

\* Code point (and UTF-8 byte) of a character of the alphabet.
CharCode(c) ==
    IF \E k \in 1..Len(LowerLetters) : LowerLetters[k] = c
    THEN 96 + (CHOOSE k \in 1..Len(LowerLetters) : LowerLetters[k] = c)
    ELSE CASE c = "\t" -> 9 [] c = "\n" -> 10 [] c = " " -> 32 [] c = "." -> 46
           [] c = "/" -> 47 [] c = "<" -> 60 [] c = ">" -> 62
           [] c = "A" -> 65 [] c = "B" -> 66 [] OTHER -> 63

\* hashlib.sha256(text).hexdigest(): a digest of the text's bytes, here
\* their positional encoding modulo a prime; it has no collision on the
\* texts of the model.
RECURSIVE compute_hash(_)
compute_hash(text) ==
    IF text = <<>> THEN 0
    ELSE (compute_hash(SubSeq(text, 1, Len(text) - 1)) * 256
          + CharCode(text[Len(text)])) % 8388593

\* ------------------------------------------------------------- embedder
\* Integer square root.
RECURSIVE ISqrtFrom(_, _)
ISqrtFrom(n, r) == IF (r + 1) * (r + 1) > n THEN r ELSE ISqrtFrom(n, r + 1)

\* SentenceTransformer.encode on one text: an opaque map from text to a raw
\* 2-dimensional vector (here decided by the letters the text holds).
Encode(text) ==
    << IF \E k \in 1..Len(text) : LowerChar(text[k]) = "a" THEN 3 ELSE 0,
       IF \E k \in 1..Len(text) : LowerChar(text[k]) = "b" THEN 4 ELSE 0 >>

\* _l2_normalize on one row; coordinates in tenths.
l2_normalize(v) ==
    LET n0 == ISqrtFrom(v[1] * v[1] + v[2] * v[2], 0)
        n  == IF n0 = 0 THEN 1 ELSE n0
    IN  << (v[1] * 10) \div n, (v[2] * 10) \div n >>

\* embed_documents(texts): one normalized row per text, in order.
embed_documents(texts) == [k \in 1..Len(texts) |-> l2_normalize(Encode(texts[k]))]

\* -------------------------------------------------------- cache_manager
\* np.save of the float32 array into a byte buffer.
embedding_to_blob(embedding) == [npy |-> "float32", data |-> embedding]

\* np.load of the buffer, as float32.
blob_to_embedding(blob) == blob.data

\* Mutant of upsert_document: the write is never committed.
upsert_document_lost(docs, doc) == docs

\* INSERT ... ON CONFLICT(doc_id) DO UPDATE on the documents table.
upsert_document(docs, doc) ==
    [d \in (DOMAIN docs) \cup {doc.doc_id} |->
        IF d = doc.doc_id
        THEN [filepath |-> doc.filepath, category |-> doc.category,
              length_tokens |-> doc.length_tokens, sha256_hash |-> doc.sha256_hash]
        ELSE docs[d]]

\* SELECT * FROM documents WHERE doc_id = ?
get_document(docs, doc_id) ==
    IF doc_id \in DOMAIN docs
    THEN [doc_id |-> doc_id, filepath |-> docs[doc_id].filepath,
          category |-> docs[doc_id].category,
          length_tokens |-> docs[doc_id].length_tokens,
          sha256_hash |-> docs[doc_id].sha256_hash]
    ELSE None

\* Row number of doc_id in the embeddings table, or 0.
EmbRow(tbl, doc_id) ==
    IF \E k \in 1..Len(tbl) : tbl[k].doc_id = doc_id
    THEN CHOOSE k \in 1..Len(tbl) : tbl[k].doc_id = doc_id
    ELSE 0

\* Mutant of upsert_embedding: INSERT OR IGNORE, an existing row is kept.
upsert_embedding_ignore(tbl, doc_id, embedding, t) ==
    IF EmbRow(tbl, doc_id) = 0
    THEN Append(tbl, [doc_id |-> doc_id, embedding |-> [npy |-> "float32", data |-> embedding],
                      updated_at |-> t])
    ELSE tbl

\* Mutant of upsert_embedding: a plain INSERT into a table without its key.
upsert_embedding_append(tbl, doc_id, embedding, t) ==
    Append(tbl, [doc_id |-> doc_id, embedding |-> embedding_to_blob(embedding),
                 updated_at |-> t])

\* INSERT ... ON CONFLICT(doc_id) DO UPDATE on the embeddings table; the
\* table is kept in rowid order, an updated row keeps its rowid.
upsert_embedding(tbl, doc_id, embedding, t) ==
    LET row == [doc_id |-> doc_id, embedding |-> embedding_to_blob(embedding),
                updated_at |-> t]
    IN  IF EmbRow(tbl, doc_id) = 0
        THEN Append(tbl, row)
        ELSE [tbl EXCEPT ![EmbRow(tbl, doc_id)] = row]

\* A call upsert_embedding(doc_id, embedding) on the store st (table and
\* clock): the call reads the clock itself, for updated_at.
UpsertEmbeddingCall(st, doc_id, embedding) ==
    [tbl |-> upsert_embedding(st.tbl, doc_id, embedding, st.clock + 1),
     clock |-> st.clock + 1]

\* SELECT doc_id, embedding FROM embeddings: (ids, emb_matrix).
get_all_embeddings_and_ids(tbl) ==
    [ids    |-> [k \in 1..Len(tbl) |-> tbl[k].doc_id],
     matrix |-> [k \in 1..Len(tbl) |-> blob_to_embedding(tbl[k].embedding)]]

\* ------------------------------------------------------------ preprocess
\* rel_path.as_posix(): the parts joined by "/".
RECURSIVE AsPosix(_)
AsPosix(parts) ==
    IF Len(parts) = 1 THEN <<parts[1]>>
    ELSE <<parts[1], "/">> \o AsPosix(Tail(parts))

\* str(path.resolve()) of a corpus file.
ResolvedPath(docs_dir, parts) == <<docs_dir, "/">> \o AsPosix(parts)

\* The corpus paths a resolved file path names (one or none).
RelOfPath(filepath) == { p \in Paths : ResolvedPath(DocsDir, p) = filepath }

\* The (Document, cleaned_text) pair scan_documents makes of one file.
ScanOne(docs_dir, parts, raw) ==
    [doc |-> [doc_id |-> AsPosix(parts),
              filepath |-> ResolvedPath(docs_dir, parts),
              category |-> IF Len(parts) > 1 THEN parts[1] ELSE "default",
              length_tokens |-> SplitCount(clean_text(raw)),
              sha256_hash |-> compute_hash(clean_text(raw))],
     cleaned |-> clean_text(raw)]

\* scan_documents(docs_dir, max_docs): `order` is the order in which rglob
\* yields the files of the directory `files`; the loop breaks once max_docs
\* documents are collected.
RECURSIVE ScanLoop(_, _, _, _, _)
ScanLoop(docs_dir, files, order, max_docs, docs) ==
    IF order = <<>> THEN docs
    ELSE LET next == Append(docs, ScanOne(docs_dir, Head(order),
                                          files[Head(order)].text))
         IN  IF max_docs > 0 /\ Len(next) >= max_docs
             THEN next
             ELSE ScanLoop(docs_dir, files, Tail(order), max_docs, next)

scan_documents(docs_dir, files, order, max_docs) ==
    ScanLoop(docs_dir, files, order, max_docs, <<>>)

\* ---------------------------------------------------------- index_manager
\* Mutant of BuildIndexRejects: the emptiness check is missing.
BuildIndexNeverRejects(matrix) == FALSE

\* embeddings.size == 0: build_index raises ValueError before any write.
BuildIndexRejects(matrix) == Len(matrix) = 0 \/ Len(matrix[1]) = 0

\* not INDEX_PATH.exists() or not META_PATH.exists()
IndexFilesMissing(ifile, mfile) == ifile = NoFile \/ mfile = NoFile

\* ---------------------------------------------------------- search_engine
\* Largest top_k a search request carries.
MaxTopK == 2

\* Queries a search request may carry.
Queries == { << >>, <<" ">>, <<"a">>, <<"B", " ", "a">> }

\* _make_preview's default max_chars.
PreviewMaxChars == 400

\* The characters of [a-zA-Z0-9] a lowered text of the model can hold.
AlNum == { LowerLetters[k] : k \in 1..Len(LowerLetters) }

\* re.findall(r"[a-zA-Z0-9]+", s) on lowered text: the maximal runs of
\* letters and digits, from left to right.
FindAllAlnum(s) ==
    LET starts == { i \in 1..Len(s) :
                      s[i] \in AlNum /\ (i = 1 \/ s[i - 1] \notin AlNum) }
        ends == { j \in 1..Len(s) :
                    s[j] \in AlNum /\ (j = Len(s) \/ s[j + 1] \notin AlNum) }
        Nth(S, k) == CHOOSE x \in S : Cardinality({ y \in S : y <= x }) = k
    IN  [k \in 1..Cardinality(starts) |-> SubSeq(s, Nth(starts, k), Nth(ends, k))]

\* SearchEngine._tokenize
tokenize(text) == FindAllAlnum(Lower(text))

\* str < str, by code points.
RECURSIVE StrLess(_, _)
StrLess(x, y) ==
    IF y = << >> THEN FALSE
    ELSE IF x = << >> THEN TRUE
    ELSE IF CharCode(Head(x)) # CharCode(Head(y))
         THEN CharCode(Head(x)) < CharCode(Head(y))
         ELSE StrLess(Tail(x), Tail(y))

\* sorted(S) for a set of strings.
RECURSIVE SortedStrings(_)
SortedStrings(S) ==
    IF S = {} THEN << >>
    ELSE LET m == CHOOSE x \in S : \A y \in S \ {x} : StrLess(x, y)
         IN  <<m>> \o SortedStrings(S \ {m})

SeqToSet(q) == { q[k] : k \in 1..Len(q) }

\* 1 / (1 + log(1 + n)) in units of 1/10000.
LenScoreOf(n) ==
    CASE n = 1 -> 5906 [] n = 2 -> 4765 [] n = 3 -> 4191 [] n = 4 -> 3832
      [] OTHER -> 3582

\* Mutant of make_preview: the cut keeps max_chars characters before the
\* ellipsis.
make_preview_overlong(text, max_chars) ==
    LET t == [k \in 1..Len(Strip(text)) |->
                 IF Strip(text)[k] = "\n" THEN " " ELSE Strip(text)[k]]
    IN  IF Len(t) <= max_chars THEN t
        ELSE SubSeq(t, 1, max_chars) \o <<".", ".", ".">>

\* SearchEngine._make_preview
make_preview(text, max_chars) ==
    LET t == [k \in 1..Len(Strip(text)) |->
                 IF Strip(text)[k] = "\n" THEN " " ELSE Strip(text)[k]]
    IN  IF Len(t) <= max_chars THEN t
        ELSE SubSeq(t, 1, max_chars - 3) \o <<".", ".", ".">>

\* Mutant of compute_explanation: the overlap is counted against the
\* document's tokens.
compute_explanation_by_doc(query, doc_text, doc_length_tokens, cosine_sim) ==
    LET q_set == SeqToSet(tokenize(query))
        d_set == SeqToSet(tokenize(doc_text))
        overlap == SortedStrings(q_set \cap d_set)
        overlap_ratio == IF d_set # {}
                         THEN (Len(overlap) * 10000) \div Cardinality(d_set)
                         ELSE 0
        len_score == LenScoreOf(IF doc_length_tokens > 1 THEN doc_length_tokens ELSE 1)
    IN  [score |-> 7 * cosine_sim + 2 * overlap_ratio + len_score,
         cosine_sim |-> cosine_sim,
         overlap_ratio |-> overlap_ratio,
         len_score |-> len_score,
         overlap_keywords |-> overlap,
         reason |-> IF overlap # << >>
                    THEN [kind |-> "overlap",
                          keywords |-> SubSeq(overlap, 1, IF Len(overlap) < 5 THEN Len(overlap) ELSE 5)]
                    ELSE [kind |-> "semantic"]]

\* SearchEngine._compute_explanation; cosine_sim and overlap_ratio in units
\* of 1/10000, score in units of 1/100000.
compute_explanation(query, doc_text, doc_length_tokens, cosine_sim) ==
    LET q_set == SeqToSet(tokenize(query))
        d_set == SeqToSet(tokenize(doc_text))
        overlap == SortedStrings(q_set \cap d_set)
        overlap_ratio == IF q_set # {}
                         THEN (Len(overlap) * 10000) \div Cardinality(q_set)
                         ELSE 0
        len_score == LenScoreOf(IF doc_length_tokens > 1 THEN doc_length_tokens ELSE 1)
    IN  [score |-> 7 * cosine_sim + 2 * overlap_ratio + len_score,
         cosine_sim |-> cosine_sim,
         overlap_ratio |-> overlap_ratio,
         len_score |-> len_score,
         overlap_keywords |-> overlap,
         reason |-> IF overlap # << >>
                    THEN [kind |-> "overlap",
                          keywords |-> SubSeq(overlap, 1, IF Len(overlap) < 5 THEN Len(overlap) ELSE 5)]
                    ELSE [kind |-> "semantic"]]

\* Inner product of two rows, in units of 1/10000.
InnerProduct(u, v) == (u[1] * v[1] + u[2] * v[2]) * 100

\* IndexFlatIP.search(q, k): the k rows of largest inner product, best first
\* (equal scores: lower row first), as (score, row) pairs; rows from 0.  With
\* fewer than k rows the result is padded with row -1 and the lowest score.
RECURSIVE FaissTopK(_, _, _, _)
FaissTopK(vectors, q, k, taken) ==
    IF k = 0 THEN << >>
    ELSE IF Cardinality(taken) = Len(vectors)
    THEN << [score |-> -1000000, idx |-> -1] >> \o FaissTopK(vectors, q, k - 1, taken)
    ELSE LET left == (1..Len(vectors)) \ taken
             best == CHOOSE r \in left : \A o \in left \ {r} :
                        \/ InnerProduct(vectors[r], q) > InnerProduct(vectors[o], q)
                        \/ /\ InnerProduct(vectors[r], q) = InnerProduct(vectors[o], q)
                           /\ r < o
         IN  << [score |-> InnerProduct(vectors[best], q), idx |-> best - 1] >>
             \o FaissTopK(vectors, q, k - 1, taken \cup {best})

\* list.sort(key=score, reverse=True): stable insertion of r into a list held
\* in descending order.
RECURSIVE InsertByScore(_, _)
InsertByScore(sorted, r) ==
    IF sorted = << >> THEN <<r>>
    ELSE IF Head(sorted).score >= r.score
         THEN <<Head(sorted)>> \o InsertByScore(Tail(sorted), r)
         ELSE <<r>> \o sorted

\* Mutant of SortByScore: the hits stay in the order the index gave them.
SortByScoreSkipped(results) == results

\* results.sort(key=lambda r: r.score, reverse=True)
RECURSIVE SortByScore(_)
SortByScore(results) ==
    IF results = << >> THEN << >>
    ELSE InsertByScore(SortByScore(SubSeq(results, 1, Len(results) - 1)),
                       results[Len(results)])

\* Path(doc.filepath).read_text(...), "" when the file is not there.
ReadDocText(files, filepath) ==
    IF \E p \in RelOfPath(filepath) : files[p] # NoFile
    THEN files[CHOOSE p \in RelOfPath(filepath) : files[p] # NoFile].text
    ELSE << >>

\* Mutant of CollectHits: a hit whose file cannot be read is skipped like a
\* hit without a Document.
RECURSIVE CollectHitsSkipUnreadable(_, _, _, _, _, _)
CollectHitsSkipUnreadable(hits, h, id_mapping, docs, files, query) ==
    IF h > Len(hits) THEN << >>
    ELSE LET idx == hits[h].idx
             rest == CollectHitsSkipUnreadable(hits, h + 1, id_mapping, docs,
                                               files, query)
         IN  IF idx < 0 \/ idx >= Len(id_mapping) THEN rest
             ELSE LET doc == get_document(docs, id_mapping[idx + 1])
                  IN  IF doc = None THEN rest
                      ELSE IF \A p \in RelOfPath(doc.filepath) : files[p] = NoFile
                      THEN rest
                      ELSE LET text == ReadDocText(files, doc.filepath)
                               ex == compute_explanation(query, text,
                                         doc.length_tokens, hits[h].score)
                           IN  << [doc_id |-> doc.doc_id,
                                   score |-> ex.score,
                                   cosine_sim |-> ex.cosine_sim,
                                   overlap_ratio |-> ex.overlap_ratio,
                                   len_score |-> ex.len_score,
                                   overlap_keywords |-> ex.overlap_keywords,
                                   preview |-> make_preview(text, PreviewMaxChars),
                                   category |-> doc.category,
                                   reason |-> ex.reason] >> \o rest

\* The loop of SearchEngine.search over the hits, from hit number h.
RECURSIVE CollectHits(_, _, _, _, _, _)
CollectHits(hits, h, id_mapping, docs, files, query) ==
    IF h > Len(hits) THEN << >>
    ELSE LET idx == hits[h].idx
             rest == CollectHits(hits, h + 1, id_mapping, docs, files, query)
         IN  IF idx < 0 \/ idx >= Len(id_mapping) THEN rest
             ELSE LET doc == get_document(docs, id_mapping[idx + 1])
                  IN  IF doc = None THEN rest
                      ELSE LET text == ReadDocText(files, doc.filepath)
                               ex == compute_explanation(query, text,
                                         doc.length_tokens, hits[h].score)
                           IN  << [doc_id |-> doc.doc_id,
                                   score |-> ex.score,
                                   cosine_sim |-> ex.cosine_sim,
                                   overlap_ratio |-> ex.overlap_ratio,
                                   len_score |-> ex.len_score,
                                   overlap_keywords |-> ex.overlap_keywords,
                                   preview |-> make_preview(text, PreviewMaxChars),
                                   category |-> doc.category,
                                   reason |-> ex.reason] >> \o rest

\* What a call of search returns: a list, or the exception it raised.
Returned(results) == [raised |-> "none", results |-> results]
Raised(exc) == [raised |-> exc, results |-> << >>]

\* embedder.embed_query(text): the embedding, or the exception raised.
embed_query(text) ==
    IF Strip(text) = << >> THEN [raised |-> "ValueError"]
    ELSE [raised |-> "none", value |-> embed_documents(<<text>>)[1]]

\* Mutant of engine_search: the query is embedded before it is tested for
\* blankness.
engine_search_embed_first(eng, docs, files, query, top_k) ==
    LET q_emb == embed_query(query)
    IN  IF q_emb.raised # "none" THEN Raised(q_emb.raised)
        ELSE IF Len(eng.index) = 0 THEN Returned(<< >>)
        ELSE LET k == IF top_k < Len(eng.index) THEN top_k ELSE Len(eng.index)
                 hits == FaissTopK(eng.index, q_emb.value, k, {})
             IN  Returned(SortByScore(CollectHits(hits, 1, eng.id_mapping,
                                                  docs, files, query)))

\* Mutant of engine_search: k is the larger of top_k and the index size.
engine_search_max_k(eng, docs, files, query, top_k) ==
    IF Strip(query) = << >> THEN Returned(<< >>)
    ELSE LET q_emb == embed_query(query)
         IN  IF q_emb.raised # "none" THEN Raised(q_emb.raised)
             ELSE IF Len(eng.index) = 0 THEN Returned(<< >>)
             ELSE LET k == IF top_k > Len(eng.index) THEN top_k ELSE Len(eng.index)
                      hits == FaissTopK(eng.index, q_emb.value, k, {})
                  IN  Returned(SortByScore(CollectHits(hits, 1, eng.id_mapping,
                                                       docs, files, query)))

\* SearchEngine.search(query, top_k) on the engine eng.
engine_search(eng, docs, files, query, top_k) ==
    IF Strip(query) = << >> THEN Returned(<< >>)
    ELSE LET q_emb == embed_query(query)
         IN  IF q_emb.raised # "none" THEN Raised(q_emb.raised)
             ELSE IF Len(eng.index) = 0 THEN Returned(<< >>)
             ELSE LET k == IF top_k < Len(eng.index) THEN top_k ELSE Len(eng.index)
                      hits == FaissTopK(eng.index, q_emb.value, k, {})
                  IN  Returned(SortByScore(CollectHits(hits, 1, eng.id_mapping,
                                                       docs, files, query)))

\* The /search handler on the application state eng: what the request gets.
api_search(eng, docs, files, query, top_k) ==
    IF eng = None
    THEN [query |-> query, top_k |-> top_k, raised |-> "none", results |-> << >>]
    ELSE LET r == engine_search(eng, docs, files, query, top_k)
         IN  [query |-> query, top_k |-> top_k, raised |-> r.raised,
              results |-> r.results]

\* ------------------------------------------------------------------ state
VARIABLES
    corpus,         \* docs_dir: path -> [text |-> raw] or NoFile
    documents,      \* cache.db table documents: doc_id -> row
    emb_table,      \* cache.db table embeddings, in rowid order
    now,            \* the last wall-clock value read
    index_file,     \* data/index.faiss: [vectors |-> rows] or NoFile
    meta_file,      \* data/index_meta.json: [ids |-> list] or NoFile
    pc,             \* where the indexing process stands
    max_docs,       \* --max-docs of the running indexing process
    all_docs,       \* main: the scanned (Document, cleaned_text) list
    pos,            \* main: position of the running loop
    to_embed_ids,   \* main
    to_embed_texts, \* main
    new_embs,       \* main: embeddings returned by embed_documents
    bi_ids,         \* main: ids / build_index: ids
    bi_matrix,      \* main: emb_matrix / build_index: embeddings
    outcome,        \* how the indexing process that reached its end ended
    prev_text,      \* history: doc_id -> cleaned text seen by the last earlier run that processed it
    start_table,    \* history: emb_table when the running process started
    svc,            \* where the API process stands
    engine,         \* app.state.search_engine: None or [index, id_mapping]
    ld_index,       \* load_index: the index read from INDEX_PATH
    load_error,     \* the exception startup_event caught, if any
    start_missing,  \* history: an artifact was missing when the process started
    response        \* the response the step just taken returned, if any

builderVars == << pc, max_docs, all_docs, pos, to_embed_ids, to_embed_texts,
                  new_embs, bi_ids, bi_matrix, outcome, prev_text, start_table >>
storeVars == << documents, emb_table, now >>
fileVars == << index_file, meta_file >>
serviceVars == << svc, engine, ld_index, load_error, start_missing >>
vars == << corpus, storeVars, fileVars, builderVars, serviceVars, response >>

\* No step has returned a response.
NoResponse == [none |-> TRUE]

\* A step of the indexing process or of the corpus: the API process stands
\* still and nothing is returned.
ServiceIdle == UNCHANGED serviceVars /\ response' = NoResponse

\* All sequences without repetition over the set S.
RECURSIVE Orders(_)
Orders(S) ==
    IF S = {} THEN { <<>> }
    ELSE UNION { { <<x>> \o o : o \in Orders(S \ {x}) } : x \in S }

Present == { p \in Paths : corpus[p] # NoFile }

\* prev_text after a process that got through the first n documents of docs.
Remember(prev, docs, n) ==
    [d \in (DOMAIN prev) \cup { docs[k].doc.doc_id : k \in 1..n } |->
        IF \E k \in 1..n : docs[k].doc.doc_id = d
        THEN docs[CHOOSE k \in 1..n : docs[k].doc.doc_id = d].cleaned
        ELSE prev[d]]

Init ==
    /\ corpus = [p \in Paths |-> NoFile]
    /\ documents = << >>
    /\ emb_table = << >>
    /\ now = 0
    /\ index_file = NoFile
    /\ meta_file = NoFile
    /\ pc = "idle"
    /\ max_docs = 0
    /\ all_docs = << >>
    /\ pos = 0
    /\ to_embed_ids = << >>
    /\ to_embed_texts = << >>
    /\ new_embs = << >>
    /\ bi_ids = << >>
    /\ bi_matrix = << >>
    /\ outcome = "none"
    /\ prev_text = << >>
    /\ start_table = << >>
    /\ svc = "down"
    /\ engine = None
    /\ ld_index = << >>
    /\ load_error = "none"
    /\ start_missing = FALSE
    /\ response = NoResponse

\* ------------------------------------------------------------ environment
\* A corpus file is created or rewritten.  The indexing process reads the
\* corpus in its scan alone, which is its first step, so an edit made while
\* it runs acts on it as the same edit made after it: edits are taken
\* between runs.
WriteFile(p, raw) ==
    /\ pc = "idle"
    /\ corpus[p] # [text |-> raw]
    /\ corpus' = [corpus EXCEPT ![p] = [text |-> raw]]
    /\ UNCHANGED << storeVars, fileVars, builderVars >>
    /\ ServiceIdle

\* A corpus file is deleted.
DeleteFile(p) ==
    /\ pc = "idle"
    /\ corpus[p] # NoFile
    /\ corpus' = [corpus EXCEPT ![p] = NoFile]
    /\ UNCHANGED << storeVars, fileVars, builderVars >>
    /\ ServiceIdle

\* ------------------------------------------------- preprocess.py __main__
\* Mutant of NeedsEmbedding: every scanned document is embedded again.
NeedsEmbeddingAlways(docs, doc) == TRUE

\* Documents of a scan whose stored hash is absent or differs.
NeedsEmbedding(docs, doc) ==
    \/ get_document(docs, doc.doc_id) = None
    \/ get_document(docs, doc.doc_id).sha256_hash # doc.sha256_hash

\* The list the entry point hands to the core logic: with --max-docs > 0 it
\* scans up to the cap and runs main_with_limit on the slice only when the
\* capped scan is longer than the cap; in every other case main() scans the
\* directory again, without a cap.
EntryDocs(docs_dir, files, order, cap) ==
    LET capped == scan_documents(docs_dir, files, order, cap)
    IN  IF cap > 0 /\ Len(capped) > cap
        THEN SubSeq(capped, 1, cap)
        ELSE scan_documents(docs_dir, files, order, 0)

\* python -m preprocess --max-docs cap: init_db, then the scan.  A run starts
\* only if the clock has room for the upsert_embedding calls it will make.
StartRun(docs_dir, cap, order) ==
    /\ pc = "idle"
    /\ LET docs == EntryDocs(docs_dir, corpus, order, cap)
       IN  /\ now + Cardinality({ k \in 1..Len(docs) :
                     NeedsEmbedding(documents, docs[k].doc) }) <= MaxClock
           /\ all_docs' = docs
    /\ max_docs' = cap
    /\ pos' = 1
    /\ to_embed_ids' = << >>
    /\ to_embed_texts' = << >>
    /\ new_embs' = << >>
    /\ bi_ids' = << >>
    /\ bi_matrix' = << >>
    /\ pc' = "diff"
    /\ outcome' = "none"
    /\ start_table' = emb_table
    /\ UNCHANGED << corpus, storeVars, fileVars, prev_text >>
    /\ ServiceIdle

\* scan_documents raises at the file `bad`: read_text has no handler around
\* it, and the loop reads the files in order until `limit` (max_docs) are
\* collected.
ScanRaises(order, limit, bad) ==
    \E j \in 1..Len(order) : order[j] = bad /\ (limit = 0 \/ j <= limit)

\* The entry point raises at `bad`: in its capped scan or, that one having
\* returned, in the scan of main.
EntryRaises(order, cap, bad) ==
    (cap > 0 /\ ScanRaises(order, cap, bad)) \/ ScanRaises(order, 0, bad)

\* Mutant of ScanFails: the scan stores each document as it reads it.
ScanFailsStreaming(docs_dir, cap, order, bad) ==
    /\ pc = "idle"
    /\ EntryRaises(order, cap, bad)
    /\ documents' = IF order[1] # bad
                     THEN upsert_document(documents,
                              ScanOne(docs_dir, order[1], corpus[order[1]].text).doc)
                     ELSE documents
    /\ max_docs' = cap
    /\ pc' = "done"
    /\ outcome' = "OSError"
    /\ start_table' = emb_table
    /\ UNCHANGED << corpus, emb_table, now, fileVars, all_docs, pos, to_embed_ids,
                    to_embed_texts, new_embs, bi_ids, bi_matrix, prev_text >>
    /\ ServiceIdle

\* python -m preprocess when the file `bad` of the corpus cannot be read
\* (its permissions, or its removal since rglob listed it): the exception
\* leaves scan_documents and main and ends the process.
ScanFails(docs_dir, cap, order, bad) ==
    /\ pc = "idle"
    /\ EntryRaises(order, cap, bad)
    /\ max_docs' = cap
    /\ pc' = "done"
    /\ outcome' = "OSError"
    /\ start_table' = emb_table
    /\ UNCHANGED << corpus, storeVars, fileVars, all_docs, pos, to_embed_ids,
                    to_embed_texts, new_embs, bi_ids, bi_matrix, prev_text >>
    /\ ServiceIdle

\* Mutant of ProcessDoc: only a document marked for embedding is upserted.
ProcessDocMarkedOnly ==
    /\ pc = "diff"
    /\ pos <= Len(all_docs)
    /\ LET doc == all_docs[pos].doc
       IN  IF NeedsEmbedding(documents, doc)
           THEN /\ documents' = upsert_document(documents, doc)
                /\ to_embed_ids' = Append(to_embed_ids, doc.doc_id)
                /\ to_embed_texts' = Append(to_embed_texts, all_docs[pos].cleaned)
           ELSE UNCHANGED << documents, to_embed_ids, to_embed_texts >>
    /\ pos' = pos + 1
    /\ UNCHANGED << corpus, emb_table, now, fileVars, pc, max_docs, all_docs,
                    new_embs, bi_ids, bi_matrix, outcome, prev_text, start_table >>
    /\ ServiceIdle

\* One iteration of the loop over all_docs: look up, upsert, mark.
ProcessDoc ==
    /\ pc = "diff"
    /\ pos <= Len(all_docs)
    /\ LET doc == all_docs[pos].doc
       IN  /\ documents' = upsert_document(documents, doc)
           /\ IF NeedsEmbedding(documents, doc)
              THEN /\ to_embed_ids' = Append(to_embed_ids, doc.doc_id)
                   /\ to_embed_texts' = Append(to_embed_texts, all_docs[pos].cleaned)
              ELSE UNCHANGED << to_embed_ids, to_embed_texts >>
    /\ pos' = pos + 1
    /\ UNCHANGED << corpus, emb_table, now, fileVars, pc, max_docs, all_docs,
                    new_embs, bi_ids, bi_matrix, outcome, prev_text, start_table >>
    /\ ServiceIdle

\* if to_embed_ids: embeddings = embedder.embed_documents(to_embed_texts)
EmbedBatch ==
    /\ pc = "diff"
    /\ pos > Len(all_docs)
    /\ IF to_embed_ids # << >>
       THEN /\ new_embs' = embed_documents(to_embed_texts)
            /\ pc' = "persist"
       ELSE /\ new_embs' = new_embs
            /\ pc' = "fetch"
    /\ pos' = 1
    /\ UNCHANGED << corpus, storeVars, fileVars, max_docs, all_docs, to_embed_ids,
                    to_embed_texts, bi_ids, bi_matrix, outcome, prev_text, start_table >>
    /\ ServiceIdle

\* One iteration of: for doc_id, emb in zip(to_embed_ids, embeddings).
\* datetime.utcnow() reads a value later than the last one read.
PersistEmbedding ==
    /\ pc = "persist"
    /\ pos <= Len(to_embed_ids) /\ pos <= Len(new_embs)
    /\ now' = now + 1
    /\ emb_table' = upsert_embedding(emb_table, to_embed_ids[pos], new_embs[pos], now')
    /\ pos' = pos + 1
    /\ pc' = IF pos + 1 > Len(to_embed_ids) \/ pos + 1 > Len(new_embs)
             THEN "fetch" ELSE "persist"
    /\ UNCHANGED << corpus, documents, fileVars, max_docs, all_docs, to_embed_ids,
                    to_embed_texts, new_embs, bi_ids, bi_matrix, outcome,
                    prev_text, start_table >>
    /\ ServiceIdle

\* Mutant of FetchAll: the index is built from this run's batch alone.
FetchBatchOnly ==
    /\ pc = "fetch"
    /\ bi_ids' = to_embed_ids
    /\ bi_matrix' = new_embs
    /\ IF to_embed_ids = << >>
       THEN /\ pc' = "done"
            /\ outcome' = "nothing_to_index"
       ELSE /\ pc' = "build"
            /\ outcome' = outcome
    /\ UNCHANGED << corpus, storeVars, fileVars, max_docs, all_docs, pos, to_embed_ids,
                    to_embed_texts, new_embs, prev_text, start_table >>
    /\ ServiceIdle

\* Mutant of FetchAll: the rows of documents the run did not scan are
\* deleted before the index is built.
FetchAllPruned ==
    /\ pc = "fetch"
    /\ LET Scanned(r) == \E k \in 1..Len(all_docs) : all_docs[k].doc.doc_id = r.doc_id
           kept == SelectSeq(emb_table, Scanned)
           got == get_all_embeddings_and_ids(kept)
       IN  /\ emb_table' = kept
           /\ documents' = [d \in { x \in DOMAIN documents :
                                       \E k \in 1..Len(all_docs) :
                                           all_docs[k].doc.doc_id = x } |-> documents[d]]
           /\ bi_ids' = got.ids
           /\ bi_matrix' = got.matrix
           /\ IF got.ids = << >>
              THEN /\ pc' = "done"
                   /\ outcome' = "nothing_to_index"
              ELSE /\ pc' = "build"
                   /\ outcome' = outcome
    /\ UNCHANGED << corpus, now, fileVars, max_docs, all_docs, pos, to_embed_ids,
                    to_embed_texts, new_embs, prev_text, start_table >>
    /\ ServiceIdle

\* ids, emb_matrix = get_all_embeddings_and_ids(); return if there are none,
\* else call build_index.
FetchAll ==
    /\ pc = "fetch"
    /\ LET got == get_all_embeddings_and_ids(emb_table)
       IN  /\ bi_ids' = got.ids
           /\ bi_matrix' = got.matrix
           /\ IF got.ids = << >>
              THEN /\ pc' = "done"
                   /\ outcome' = "nothing_to_index"
              ELSE /\ pc' = "build"
                   /\ outcome' = outcome
    /\ UNCHANGED << corpus, storeVars, fileVars, max_docs, all_docs, pos, to_embed_ids,
                    to_embed_texts, new_embs, prev_text, start_table >>
    /\ ServiceIdle

\* build_index up to the first write: mkdir, the emptiness check, the
\* in-memory IndexFlatIP.
BuildIndexEnter ==
    /\ pc = "build"
    /\ IF BuildIndexRejects(bi_matrix)
       THEN /\ pc' = "done"
            /\ outcome' = "ValueError"
       ELSE /\ pc' = "write_index"
            /\ outcome' = outcome
    /\ UNCHANGED << corpus, storeVars, fileVars, max_docs, all_docs, pos, to_embed_ids,
                    to_embed_texts, new_embs, bi_ids, bi_matrix, prev_text, start_table >>
    /\ ServiceIdle

\* faiss.write_index(index, INDEX_PATH)
WriteIndex ==
    /\ pc = "write_index"
    /\ index_file' = [vectors |-> bi_matrix]
    /\ pc' = "write_meta"
    /\ UNCHANGED << corpus, storeVars, meta_file, max_docs, all_docs, pos, to_embed_ids,
                    to_embed_texts, new_embs, bi_ids, bi_matrix, outcome,
                    prev_text, start_table >>
    /\ ServiceIdle

\* META_PATH.write_text(json.dumps({"ids": ids}))
WriteMeta ==
    /\ pc = "write_meta"
    /\ meta_file' = [ids |-> bi_ids]
    /\ pc' = "done"
    /\ outcome' = "built"
    /\ UNCHANGED << corpus, storeVars, index_file, max_docs, all_docs, pos, to_embed_ids,
                    to_embed_texts, new_embs, bi_ids, bi_matrix, prev_text, start_table >>
    /\ ServiceIdle

\* The locals of a process are gone once it has ended.
ForgetLocals ==
    /\ max_docs' = 0
    /\ all_docs' = << >>
    /\ pos' = 0
    /\ to_embed_ids' = << >>
    /\ to_embed_texts' = << >>
    /\ new_embs' = << >>
    /\ bi_ids' = << >>
    /\ bi_matrix' = << >>
    /\ start_table' = << >>

\* The indexing process returns from main and exits.
Exit ==
    /\ pc = "done"
    /\ pc' = "idle"
    /\ outcome' = "none"
    /\ prev_text' = Remember(prev_text, all_docs, Len(all_docs))
    /\ ForgetLocals
    /\ UNCHANGED << corpus, storeVars, fileVars >>
    /\ ServiceIdle

\* The indexing process is killed, or an exception ends it, between two steps.
Abort ==
    /\ pc \in { "diff", "persist", "fetch", "build", "write_index", "write_meta" }
    /\ pc' = "idle"
    /\ outcome' = "none"
    /\ prev_text' = Remember(prev_text, all_docs,
                             IF pc = "diff" THEN pos - 1 ELSE Len(all_docs))
    /\ ForgetLocals
    /\ UNCHANGED << corpus, storeVars, fileVars >>
    /\ ServiceIdle

\* A direct call build_index(embeddings, ids) with an empty matrix.
CallBuildIndexEmpty ==
    /\ pc = "idle"
    /\ pc' = "build"
    /\ outcome' = "none"
    /\ bi_ids' = << >>
    /\ bi_matrix' = << >>
    /\ UNCHANGED << corpus, storeVars, fileVars, max_docs, all_docs, pos, to_embed_ids,
                    to_embed_texts, new_embs, prev_text, start_table >>
    /\ ServiceIdle

\* --------------------------------------------------------------- api.py
\* startup_event, up to load_index's existence check: a missing artifact
\* raises FileNotFoundError, which startup_event catches.
startup_event ==
    /\ svc = "down"
    /\ start_missing' = (index_file = NoFile \/ meta_file = NoFile)
    /\ IF IndexFilesMissing(index_file, meta_file)
       THEN /\ load_error' = "FileNotFoundError"
            /\ engine' = None
            /\ svc' = "serving"
       ELSE /\ load_error' = "none"
            /\ engine' = engine
            /\ svc' = "read_index"
    /\ ld_index' = << >>
    /\ response' = NoResponse
    /\ UNCHANGED << corpus, storeVars, fileVars, builderVars >>

\* index = faiss.read_index(INDEX_PATH)
ReadIndex ==
    /\ svc = "read_index"
    /\ ld_index' = index_file.vectors
    /\ svc' = "read_meta"
    /\ response' = NoResponse
    /\ UNCHANGED << corpus, storeVars, fileVars, builderVars, engine, load_error,
                    start_missing >>

\* ids = list(meta.get("ids", [])); SearchEngine(index, ids) is installed.
ReadMeta ==
    /\ svc = "read_meta"
    /\ engine' = [index |-> ld_index, id_mapping |-> meta_file.ids]
    /\ svc' = "serving"
    /\ ld_index' = << >>
    /\ response' = NoResponse
    /\ UNCHANGED << corpus, storeVars, fileVars, builderVars, load_error, start_missing >>

\* Mutant of Search: with no engine, the request tries load_index again.
SearchLazyLoad(query, top_k) ==
    /\ svc = "serving"
    /\ engine' = IF engine = None /\ ~IndexFilesMissing(index_file, meta_file)
                 THEN [index |-> index_file.vectors, id_mapping |-> meta_file.ids]
                 ELSE engine
    /\ response' = api_search(engine', documents, corpus, query, top_k)
    /\ UNCHANGED << corpus, storeVars, fileVars, builderVars, svc, ld_index,
                    load_error, start_missing >>

\* Mutant of Search: every request reloads the artifacts from disk.
SearchHotReload(query, top_k) ==
    /\ svc = "serving"
    /\ engine' = IF engine # None /\ ~IndexFilesMissing(index_file, meta_file)
                 THEN [index |-> index_file.vectors, id_mapping |-> meta_file.ids]
                 ELSE engine
    /\ response' = api_search(engine', documents, corpus, query, top_k)
    /\ UNCHANGED << corpus, storeVars, fileVars, builderVars, svc, ld_index,
                    load_error, start_missing >>

\* POST /search
Search(query, top_k) ==
    /\ svc = "serving"
    /\ response' = api_search(engine, documents, corpus, query, top_k)
    /\ UNCHANGED << corpus, storeVars, fileVars, builderVars, serviceVars >>

\* The API process ends.
Shutdown ==
    /\ svc = "serving"
    /\ svc' = "down"
    /\ engine' = None
    /\ ld_index' = << >>
    /\ load_error' = "none"
    /\ start_missing' = FALSE
    /\ response' = NoResponse
    /\ UNCHANGED << corpus, storeVars, fileVars, builderVars >>

\* ------------------------------------------------------- specifications
\* A step of the indexing process.
RunStep ==
    \/ ProcessDoc
    \/ EmbedBatch
    \/ PersistEmbedding
    \/ FetchAll
    \/ BuildIndexEnter
    \/ WriteIndex
    \/ WriteMeta
    \/ Exit
    \/ Abort
    \/ CallBuildIndexEmpty

BuilderStep ==
    \/ \E cap \in 0..MaxCap, order \in Orders(Present) : StartRun(DocsDir, cap, order)
    \/ \E cap \in 0..MaxCap, order \in Orders(Present), bad \in Present :
          ScanFails(DocsDir, cap, order, bad)
    \/ RunStep

\* The indexing pipeline and its corpus.
Next ==
    \/ \E p \in Paths, raw \in RawTexts : WriteFile(p, raw)
    \/ \E p \in Paths : DeleteFile(p)
    \/ BuilderStep

Spec == Init /\ [][Next]_vars

\* The raw content each corpus file is given while the API process is watched.
ServeText(p) == IF Len(p) > 1 THEN <<"A">> ELSE <<"a", " ", "\n", "B">>

\* The API process beside the indexing pipeline.
NextServe ==
    \/ \E p \in Paths : WriteFile(p, ServeText(p))
    \/ \E p \in Paths : DeleteFile(p)
    \/ BuilderStep
    \/ startup_event
    \/ ReadIndex
    \/ ReadMeta
    \/ \E query \in Queries, top_k \in 1..MaxTopK : Search(query, top_k)
    \/ Shutdown

SpecServe == Init /\ [][NextServe]_vars

\* The indexing pipeline over a corpus whose directory may be another at
\* each run, with one content per file.
NextMoved ==
    \/ \E p \in Paths : WriteFile(p, ServeText(p))
    \/ \E p \in Paths : DeleteFile(p)
    \/ \E docs_dir \in DocsDirs, cap \in 0..MaxCap, order \in Orders(Present) :
          StartRun(docs_dir, cap, order)
    \/ \E docs_dir \in DocsDirs, cap \in 0..MaxCap, order \in Orders(Present),
          bad \in Present : ScanFails(docs_dir, cap, order, bad)
    \/ RunStep

SpecMoved == Init /\ [][NextMoved]_vars

\* ------------------------------------------------- the search function
\* SearchEngine.search as a function of its inputs: the engine it was built
\* with, the documents table, the corpus files and the request.  The engine
\* takes any index and any id list (the constructor checks nothing), and the
\* store and the corpus are files of their own, so every combination below
\* is a state the API process can be started in.
CatDog == << "c", "a", "t", " ", "d", "o", "g" >>
StockMarketFinance == << "s", "t", "o", "c", "k", " ", "m", "a", "r", "k", "e", "t",
                        " ", "f", "i", "n", "a", "n", "c", "e" >>
DogFinance == << "d", "o", "g", " ", "f", "i", "n", "a", "n", "c", "e" >>

\* The text each corpus file had when it was indexed.
IndexedText(p) == IF Len(p) > 1 THEN CatDog ELSE StockMarketFinance

\* What a corpus file holds at search time: nothing, the indexed text, or a
\* later text.
SearchFiles(p) == { NoFile, [text |-> IndexedText(p)],
                    [text |-> <<"a", " ", "\n", "B">>] }

\* Unit vectors (in tenths) the rows of a loaded index are drawn from.
SearchVectors == { <<10, 0>>, <<8, 6>>, <<6, 8>> }

\* Indexes of up to two rows, and id lists over the corpus.
SearchIndexes ==
    { << >> } \cup { << v >> : v \in SearchVectors }
              \cup { << v, w >> : v \in SearchVectors, w \in SearchVectors }

SearchIdMappings ==
    { << >>, << AsPosix(<<"pets", "d1.txt">>) >>,
      << AsPosix(<<"pets", "d1.txt">>), AsPosix(<<"d2.txt">>) >>,
      << AsPosix(<<"d2.txt">>), AsPosix(<<"pets", "d1.txt">>) >> }

\* The documents table holding the rows of the paths in S, as indexed.
RECURSIVE StoreOf(_)
StoreOf(S) ==
    IF S = {} THEN << >>
    ELSE LET p == CHOOSE x \in S : TRUE
         IN  upsert_document(StoreOf(S \ {p}), ScanOne(DocsDir, p, IndexedText(p)).doc)

SearchQueries == Queries \cup { DogFinance, << "." >> }

InitSearch ==
    /\ corpus \in { f \in [Paths -> UNION { SearchFiles(p) : p \in Paths }] :
                       \A p \in Paths : f[p] \in SearchFiles(p) }
    /\ documents \in { StoreOf(S) : S \in SUBSET Paths }
    /\ emb_table = << >>
    /\ now = 0
    /\ index_file = NoFile
    /\ meta_file = NoFile
    /\ pc = "idle"
    /\ max_docs = 0
    /\ all_docs = << >>
    /\ pos = 0
    /\ to_embed_ids = << >>
    /\ to_embed_texts = << >>
    /\ new_embs = << >>
    /\ bi_ids = << >>
    /\ bi_matrix = << >>
    /\ outcome = "none"
    /\ prev_text = << >>
    /\ start_table = << >>
    /\ svc = "serving"
    /\ engine \in { [index |-> ix, id_mapping |-> ids] :
                        ix \in SearchIndexes, ids \in SearchIdMappings }
    /\ ld_index = << >>
    /\ load_error = "none"
    /\ start_missing = FALSE
    /\ response = NoResponse

NextSearch ==
    \E query \in SearchQueries, top_k \in 1..MaxTopK : Search(query, top_k)

SpecSearch == InitSearch /\ [][NextSearch]_vars

\* --------------------------------------------------- previews of long files
\* Searches over one indexed file, rewritten since it was indexed, whose
\* body is around the preview limit.
\* A body is a run of n letters, its second character a newline if nl,
\* between a leading and a trailing run of whitespace.
MaxOver == 3

BodyPads == { << >>, << " " >>, << "\n" >> }

BodyCore(n, nl) == [k \in 1..n |-> IF nl /\ k = 2 /\ n > 2 THEN "\n" ELSE "a"]

BodyLens == { 0, 1, 500 }
            \cup ((PreviewMaxChars - MaxOver)..(PreviewMaxChars + MaxOver))

PreviewBodies ==
    { lead \o BodyCore(n, nl) \o trail :
        lead \in BodyPads, trail \in BodyPads, n \in BodyLens, nl \in BOOLEAN }

InitPreview ==
    /\ \E body \in PreviewBodies :
          /\ corpus = [p \in Paths |->
                          IF p = <<"d2.txt">> THEN [text |-> body] ELSE NoFile]
          /\ documents = StoreOf({ <<"d2.txt">> })
    /\ emb_table = << >>
    /\ now = 0
    /\ index_file = NoFile
    /\ meta_file = NoFile
    /\ pc = "idle"
    /\ max_docs = 0
    /\ all_docs = << >>
    /\ pos = 0
    /\ to_embed_ids = << >>
    /\ to_embed_texts = << >>
    /\ new_embs = << >>
    /\ bi_ids = << >>
    /\ bi_matrix = << >>
    /\ outcome = "none"
    /\ prev_text = << >>
    /\ start_table = << >>
    /\ svc = "serving"
    /\ engine = [index |-> << <<10, 0>> >>,
                 id_mapping |-> << AsPosix(<<"d2.txt">>) >>]
    /\ ld_index = << >>
    /\ load_error = "none"
    /\ start_missing = FALSE
    /\ response = NoResponse

\* One query is enough: the preview of a result does not depend on it.
NextPreview ==
    \E top_k \in 1..MaxTopK : Search(<< "a" >>, top_k)

SpecPreview == InitPreview /\ [][NextPreview]_vars

\* ------------------------------------------------------------------ claims
\* The documents of the running process that an earlier run processed with
\* the same cleaned text, and those it processed with another cleaned text.
Unchanged == { k \in 1..Len(all_docs) :
    /\ all_docs[k].doc.doc_id \in DOMAIN prev_text
    /\ prev_text[all_docs[k].doc.doc_id] = all_docs[k].cleaned }

Changed == { k \in 1..Len(all_docs) :
    /\ all_docs[k].doc.doc_id \in DOMAIN prev_text
    /\ prev_text[all_docs[k].doc.doc_id] # all_docs[k].cleaned }

\* The loop over all_docs has dealt with document number k.
Processed(k) == (pc = "diff" /\ k < pos) \/ pc \in { "persist", "fetch", "build", "write_index", "write_meta", "done" }

\* The loop over the embedding batch is over.
Persisted == pc \in { "fetch", "build", "write_index", "write_meta", "done" }

\* The row of doc_id in an embeddings table, or None.
RowOf(tbl, doc_id) == IF EmbRow(tbl, doc_id) = 0 THEN None ELSE tbl[EmbRow(tbl, doc_id)]

\* C1: a run started with --max-docs N > 0 processes at most N documents.
C1_CapTruncatesRun ==
    (pc # "idle" /\ max_docs > 0) => Len(all_docs) <= max_docs

\* C2: in every state the two persisted index artifacts are a matched pair:
\* both absent, or both present with as many vector rows as ids.
C2_IndexPairAllOrNothing ==
    \/ index_file = NoFile /\ meta_file = NoFile
    \/ /\ index_file # NoFile
       /\ meta_file # NoFile
       /\ Len(index_file.vectors) = Len(meta_file.ids)

\* C3: when a run has completed its build, the id list and the vector rows
\* have the same length, every doc_id with a stored embedding is in the id
\* list exactly once, and row i is the stored embedding of ids[i].
C3_BuiltIndexMatchesStore ==
    (pc = "done" /\ outcome = "built") =>
        /\ index_file # NoFile /\ meta_file # NoFile
        /\ Len(index_file.vectors) = Len(meta_file.ids)
        /\ \A r \in 1..Len(emb_table) :
              Cardinality({ i \in 1..Len(meta_file.ids) :
                              meta_file.ids[i] = emb_table[r].doc_id }) = 1
        /\ \A i \in 1..Len(meta_file.ids) :
              /\ EmbRow(emb_table, meta_file.ids[i]) # 0
              /\ index_file.vectors[i] =
                    blob_to_embedding(emb_table[EmbRow(emb_table, meta_file.ids[i])].embedding)

\* A completed build in which no document was re-embedded, over two stored
\* embeddings.
C3_Witness ==
    /\ pc = "done" /\ outcome = "built"
    /\ all_docs # << >> /\ to_embed_ids = << >>
    /\ Len(meta_file.ids) = 2

\* C4: a document whose cleaned text is the one an earlier run processed has
\* the stored hash, is not put in the embedding batch, and keeps its
\* embedding row (vector and updated_at) as it was when the run started.
C4_UnchangedTextNotReembedded ==
    \A k \in Unchanged :
        LET id == all_docs[k].doc.doc_id
        IN  /\ id \in DOMAIN documents
            /\ documents[id].sha256_hash = all_docs[k].doc.sha256_hash
            /\ \A j \in 1..Len(to_embed_ids) : to_embed_ids[j] # id
            /\ RowOf(emb_table, id) = RowOf(start_table, id)

\* A completed run that re-embedded some document and left alone an
\* unchanged one that has an embedding.
C4_Witness ==
    /\ pc = "done" /\ outcome = "built"
    /\ to_embed_ids # << >>
    /\ \E k \in Unchanged : EmbRow(emb_table, all_docs[k].doc.doc_id) # 0

\* C5: a document whose cleaned text differs from the one an earlier run
\* processed gets a different stored hash and a place in the embedding
\* batch; once the batch is persisted its stored embedding is the embedding
\* of the new text and its updated_at is later than before.
C5_ChangedTextReembedded ==
    \A k \in Changed :
        LET id == all_docs[k].doc.doc_id
        IN  /\ id \in DOMAIN documents
            /\ ~Processed(k) => documents[id].sha256_hash = compute_hash(prev_text[id])
            /\ Processed(k) =>
                  /\ documents[id].sha256_hash = compute_hash(all_docs[k].cleaned)
                  /\ documents[id].sha256_hash # compute_hash(prev_text[id])
                  /\ \E j \in 1..Len(to_embed_ids) : to_embed_ids[j] = id
            /\ Persisted =>
                  /\ EmbRow(emb_table, id) # 0
                  /\ blob_to_embedding(RowOf(emb_table, id).embedding)
                        = embed_documents(<<all_docs[k].cleaned>>)[1]
                  /\ EmbRow(start_table, id) # 0 =>
                        RowOf(emb_table, id).updated_at > RowOf(start_table, id).updated_at

\* A completed run over a document whose text changed and that had an
\* embedding before.
C5_Witness ==
    /\ pc = "done" /\ outcome = "built"
    /\ \E k \in Changed : EmbRow(start_table, all_docs[k].doc.doc_id) # 0

\* C6: with no embedding in the store the run ends at the fetch without a
\* build; build_index on an empty matrix ends in ValueError; and an index
\* artifact is only ever written by build_index's write steps, on a
\* non-empty matrix.
C6_EmptyIndexNeverWritten ==
    [][ /\ (pc = "fetch" /\ emb_table = << >>) =>
              (pc' \in { "done", "idle" } /\ UNCHANGED fileVars
               /\ (pc' = "done" => outcome' = "nothing_to_index"))
        /\ (pc = "build" /\ BuildIndexRejects(bi_matrix)) =>
              (pc' \in { "done", "idle" } /\ UNCHANGED fileVars
               /\ (pc' = "done" => outcome' = "ValueError"))
        /\ (fileVars' # fileVars) =>
              (pc \in { "write_index", "write_meta" } /\ bi_matrix # << >>
               /\ emb_table # << >>)
      ]_vars

\* A run that found documents but no embedding and ended without a build.
C6_Witness ==
    /\ pc = "done" /\ outcome = "nothing_to_index"
    /\ all_docs # << >>
    /\ index_file = NoFile /\ meta_file = NoFile

\* C7: every doc_id with an Embedding row has a Document row.
C7_EmbeddingHasDocument ==
    \A r \in 1..Len(emb_table) : emb_table[r].doc_id \in DOMAIN documents

\* No run is going on, and the store holds two embeddings.
C7_Witness ==
    /\ pc = "idle"
    /\ Len(emb_table) = 2

\* C8: the engine installed by load_index holds as many vector rows as ids.
C8_LoadedPairMatches ==
    engine # None => Len(engine.index) = Len(engine.id_mapping)

\* C9: a process that found an artifact missing at startup serves with no
\* engine, having caught FileNotFoundError, and every search it answers
\* returns an empty list.
C9_MissingIndexDegrades ==
    (svc = "serving" /\ start_missing) =>
        /\ engine = None
        /\ load_error = "FileNotFoundError"
        /\ response # NoResponse => response.results = << >>

\* Such a process answers a non-blank search with the empty list although
\* both artifacts have been built since and the store has documents.
C9_Witness ==
    /\ svc = "serving" /\ start_missing
    /\ index_file # NoFile /\ meta_file # NoFile
    /\ DOMAIN documents # {}
    /\ response # NoResponse
    /\ Strip(response.query) # << >>
    /\ response.results = << >>

\* C10: while the process serves, its engine stays the one it loaded; and a
\* step that answers a search changes neither the store, the artifacts, the
\* corpus nor the engine.
C10_LoadedIndexImmutable ==
    [][ /\ (svc = "serving" /\ svc' = "serving") => engine' = engine
        /\ response' # NoResponse =>
              UNCHANGED << documents, emb_table, index_file, meta_file, corpus, engine >>
      ]_vars

\* A search answered from a loaded engine that differs from the rebuilt
\* artifacts on disk.
C10_Witness ==
    /\ svc = "serving" /\ engine # None
    /\ index_file # NoFile /\ meta_file # NoFile
    /\ engine.id_mapping # meta_file.ids
    /\ Len(engine.index) = Len(engine.id_mapping)
    /\ response # NoResponse
    /\ response.results # << >>

\* C11: a search with an empty or whitespace-only query, and a search with a
\* non-blank query on an engine whose index holds no vector, return the empty
\* list and raise nothing.
C11_BlankOrEmptyIndexReturnsEmpty ==
    (/\ response # NoResponse
     /\ engine # None
     /\ Strip(response.query) = << >> \/ Len(engine.index) = 0)
    => (response.raised = "none" /\ response.results = << >>)

\* Both cases have happened: a blank query on an index that would have
\* answered, and a non-blank query on an index of no vector.
C11_Witness ==
    /\ response # NoResponse
    /\ engine # None
    /\ \/ /\ response.query = << " " >>
          /\ Len(engine.index) = 2
          /\ \A k \in 1..Len(engine.id_mapping) :
                 engine.id_mapping[k] \in DOMAIN documents
       \/ /\ Strip(response.query) # << >>
          /\ Len(engine.index) = 0
          /\ Len(engine.id_mapping) = 2
    /\ response.results = << >>
    /\ response.raised = "none"

\* C12: whatever the query and top_k, a search returns no more results than
\* the smaller of top_k and the number of vectors of the index; a top_k above
\* the index size raises nothing and pads nothing.
C12_AtMostMinTopKIndexSize ==
    (response # NoResponse /\ engine # None)
    => /\ Len(response.results) <= response.top_k
       /\ Len(response.results) <= Len(engine.index)
       /\ response.raised = "none"

\* A request asked for more results than the index has vectors and got one
\* result for each vector.
C12_Witness ==
    /\ response # NoResponse
    /\ engine # None
    /\ Len(engine.index) = 1
    /\ response.top_k > Len(engine.index)
    /\ Len(response.results) = Len(engine.index)
    /\ response.raised = "none"

\* C13: the results of a search are in descending order of their composite
\* score, also when the index returned them in another (cosine) order.
C13_SortedByCompositeScore ==
    (response # NoResponse)
    => \A i \in 1..(Len(response.results) - 1) :
           response.results[i].score >= response.results[i + 1].score

\* Two results came back with the one of smaller cosine similarity first,
\* its composite score being the larger.
C13_Witness ==
    /\ response # NoResponse
    /\ Len(response.results) = 2
    /\ response.results[1].cosine_sim < response.results[2].cosine_sim
    /\ response.results[1].score > response.results[2].score

\* The hits the index gave the request that was just answered, and those of
\* them whose row is in the id list and whose doc_id has a Document.
AnsweredHits ==
    LET n == Len(engine.index)
        k == IF response.top_k < n THEN response.top_k ELSE n
    IN  FaissTopK(engine.index, embed_query(response.query).value, k, {})

KeptHits ==
    { h \in 1..Len(AnsweredHits) :
        /\ AnsweredHits[h].idx >= 0
        /\ AnsweredHits[h].idx < Len(engine.id_mapping)
        /\ engine.id_mapping[AnsweredHits[h].idx + 1] \in DOMAIN documents }

\* The corpus file of a stored document is not there.
FileMissing(doc_id) ==
    \A p \in RelOfPath(documents[doc_id].filepath) : corpus[p] = NoFile

\* C14: a search skips every hit whose doc_id has no Document and returns
\* every other hit; a returned hit whose file is missing has an empty
\* preview, no overlap keyword and overlap ratio 0; neither case raises.
C14_MissingRecordSkippedMissingFileKept ==
    (/\ response # NoResponse
     /\ engine # None
     /\ Strip(response.query) # << >>
     /\ Len(engine.index) > 0)
    => /\ response.raised = "none"
       /\ Len(response.results) = Cardinality(KeptHits)
       /\ \A h \in KeptHits : \E i \in 1..Len(response.results) :
              response.results[i].doc_id = engine.id_mapping[AnsweredHits[h].idx + 1]
       /\ \A i \in 1..Len(response.results) :
              /\ response.results[i].doc_id \in DOMAIN documents
              /\ FileMissing(response.results[i].doc_id)
                 => /\ response.results[i].preview = << >>
                    /\ response.results[i].overlap_keywords = << >>
                    /\ response.results[i].overlap_ratio = 0

\* Of two hits, the one without a Document was skipped and the one whose
\* file is gone was returned, for a query that named a word of its indexed
\* text.
C14_Witness ==
    /\ response # NoResponse
    /\ engine # None
    /\ response.query = DogFinance
    /\ response.top_k = 2
    /\ Len(engine.index) = 2
    /\ Len(engine.id_mapping) = 2
    /\ Cardinality(DOMAIN documents) = 1
    /\ Len(response.results) = 1
    /\ FileMissing(response.results[1].doc_id)
    /\ response.results[1].preview = << >>

\* The text search read for a result: its document's file, or nothing.
TextRead(r) == ReadDocText(corpus, documents[r.doc_id].filepath)

\* The words of a text: its maximal runs of letters and digits, lowered.
WordsOf(text) == SeqToSet(tokenize(text))

\* C15: the overlap keywords of a result are the words common to the query
\* and the document's text, each once, in ascending order; the overlap ratio
\* (in 1/10000) is their number over the number of distinct query words, 0
\* when the query has no word, and lies between 0 and 1.  With the texts
\* 'cat dog' and 'stock market finance' and the query 'dog finance' the
\* keywords are 'dog' alone and 'finance' alone, and both ratios are 0.5.
C15_OverlapKeywordsAndRatio ==
    (response # NoResponse)
    => \A i \in 1..Len(response.results) :
         LET r == response.results[i]
             kw == r.overlap_keywords
             q == WordsOf(response.query)
         IN  /\ SeqToSet(kw) = q \cap WordsOf(TextRead(r))
             /\ \A a, b \in 1..Len(kw) : a < b => StrLess(kw[a], kw[b])
             /\ r.overlap_ratio
                  = IF q = {} THEN 0 ELSE (Len(kw) * 10000) \div Cardinality(q)
             /\ r.overlap_ratio >= 0 /\ r.overlap_ratio <= 10000
             /\ (response.query = DogFinance /\ TextRead(r) = CatDog)
                => (kw = << <<"d", "o", "g">> >> /\ r.overlap_ratio = 5000)
             /\ (response.query = DogFinance /\ TextRead(r) = StockMarketFinance)
                => (kw = << <<"f", "i", "n", "a", "n", "c", "e">> >>
                    /\ r.overlap_ratio = 5000)

\* The example was run: both documents came back for 'dog finance', each
\* with its file as indexed.
C15_Witness ==
    /\ response # NoResponse
    /\ response.query = DogFinance
    /\ Len(response.results) = 2
    /\ \E i, j \in 1..2 :
          /\ TextRead(response.results[i]) = CatDog
          /\ TextRead(response.results[j]) = StockMarketFinance
          /\ response.results[i].overlap_ratio = 5000
          /\ response.results[j].overlap_ratio = 5000

\* Arguments the two upserts are tried with on every reachable store.
DocInputs == { ScanOne(DocsDir, p, raw).doc : p \in Paths, raw \in RawTexts }
IdInputs == { AsPosix(p) : p \in Paths }
VecInputs == { embed_documents(<< clean_text(raw) >>)[1] : raw \in RawTexts }

\* The store as the embeddings calls see it, and a table without its
\* timestamps.
StoreNow == [tbl |-> emb_table, clock |-> now]
Untimed(tbl) == [k \in DOMAIN tbl |->
                   [doc_id |-> tbl[k].doc_id, embedding |-> tbl[k].embedding]]

\* An upsert writes its row under its key and leaves every other row alone;
\* no doc_id has two rows.
OverwriteByKey ==
    /\ \A d \in DocInputs :
          LET after == upsert_document(documents, d)
          IN  /\ DOMAIN after = DOMAIN documents \cup { d.doc_id }
              /\ get_document(after, d.doc_id) = d
              /\ \A x \in DOMAIN documents : x # d.doc_id => after[x] = documents[x]
    /\ \A id \in IdInputs, v \in VecInputs :
          LET after == UpsertEmbeddingCall(StoreNow, id, v).tbl
              row == EmbRow(after, id)
          IN  /\ row # 0
              /\ blob_to_embedding(after[row].embedding) = v
              /\ Len(after) = Len(emb_table) + (IF EmbRow(emb_table, id) = 0 THEN 1 ELSE 0)
              /\ \A k \in 1..Len(emb_table) : k # row => after[k] = emb_table[k]
    /\ \A i, j \in 1..Len(emb_table) :
          i # j => emb_table[i].doc_id # emb_table[j].doc_id

\* C16 as stated: a second upsert_document(d) or upsert_embedding(id, v) with
\* the same arguments leaves the store as the first left it, an upsert on an
\* existing key replaces the row, and no doc_id has two rows of a table.
C16_UpsertsIdempotent ==
    /\ OverwriteByKey
    /\ \A d \in DocInputs :
          upsert_document(upsert_document(documents, d), d)
            = upsert_document(documents, d)
    /\ \A id \in IdInputs, v \in VecInputs :
          LET once == UpsertEmbeddingCall(StoreNow, id, v)
          IN  UpsertEmbeddingCall(once, id, v).tbl = once.tbl

\* C16 amended: a second upsert_document(d) leaves the store as the first
\* left it; a second upsert_embedding(id, v) leaves the same rows with the
\* same vectors but stamps the row with the time of the second call; an
\* upsert on an existing key replaces the row, and no doc_id has two rows.
C16_UpsertsIdempotentButForTime ==
    /\ OverwriteByKey
    /\ \A d \in DocInputs :
          upsert_document(upsert_document(documents, d), d)
            = upsert_document(documents, d)
    /\ \A id \in IdInputs, v \in VecInputs :
          LET once == UpsertEmbeddingCall(StoreNow, id, v)
              twice == UpsertEmbeddingCall(once, id, v)
          IN  /\ Untimed(twice.tbl) = Untimed(once.tbl)
              /\ \A k \in 1..Len(once.tbl) :
                    twice.tbl[k].updated_at
                      = IF once.tbl[k].doc_id = id THEN twice.clock
                        ELSE once.tbl[k].updated_at

\* Both upserts have acted on an existing key: the one embedding row was
\* written a second time, and its document's row holds another hash than
\* some input for the same key.
C16_Witness ==
    /\ Len(emb_table) = 1
    /\ emb_table[1].updated_at = 2
    /\ \E d \in DocInputs :
          /\ d.doc_id = emb_table[1].doc_id
          /\ d.doc_id \in DOMAIN documents
          /\ documents[d.doc_id].sha256_hash # d.sha256_hash

\* The indexing process has run to its end.
Completed == pc = "done" /\ outcome \in { "built", "nothing_to_index" }

\* C17: when a build run has completed, the stored Document of every
\* document it scanned has the filepath, category, length_tokens and hash
\* the run computed, whether its content had changed or not.
C17_StoredMetadataIsCurrent ==
    Completed
    => \A k \in 1..Len(all_docs) :
          get_document(documents, all_docs[k].doc.doc_id) = all_docs[k].doc

\* A run over the moved corpus directory has completed: a document of
\* unchanged content is stored under the new directory, beside a document
\* (not scanned by this run) still stored under the old one.
C17_Witness ==
    /\ Completed
    /\ \E k \in Unchanged :
          /\ all_docs[k].doc.filepath = ResolvedPath("/mnt/docs", <<"pets", "d1.txt">>)
          /\ documents[all_docs[k].doc.doc_id].filepath = all_docs[k].doc.filepath
    /\ AsPosix(<<"d2.txt">>) \in DOMAIN documents
    /\ documents[AsPosix(<<"d2.txt">>)].filepath = ResolvedPath(DocsDir, <<"d2.txt">>)

\* C18: when a build run has completed, every document it scanned has an
\* Embedding row, and the row's vector is the embedding of the text whose
\* hash the Document stores (the text the run scanned), whatever happened
\* to earlier runs.
C18_CompletedRunEmbedsStoredText ==
    Completed
    => \A k \in 1..Len(all_docs) :
          LET row == RowOf(emb_table, all_docs[k].doc.doc_id)
          IN  /\ row # None
              /\ documents[all_docs[k].doc.doc_id].sha256_hash
                   = compute_hash(all_docs[k].cleaned)
              /\ blob_to_embedding(row.embedding)
                   = embed_documents(<< all_docs[k].cleaned >>)[1]

\* C19: a run whose scan fails on a file ends there, fatally: the step that
\* fails leaves every Document row, every Embedding row and both index
\* artifacts as they were, and the failed process does nothing but exit.
C19_ScanFailureWritesNothing ==
    [][ /\ (pc' = "done" /\ outcome' = "OSError")
           => UNCHANGED << documents, emb_table, index_file, meta_file >>
        /\ (pc = "done" /\ outcome = "OSError" /\ pc' # pc)
           => (pc' = "idle" /\ UNCHANGED << documents, emb_table, index_file, meta_file >>)
      ]_vars

\* A scan over two files failed while one of them was not stored yet.
C19_Witness ==
    /\ pc = "done"
    /\ outcome = "OSError"
    /\ Cardinality(Present) = 2
    /\ \E p \in Present : AsPosix(p) \notin DOMAIN documents
    /\ emb_table = start_table

\* The doc_ids that have an Embedding row.
EmbIds(tbl) == { tbl[k].doc_id : k \in 1..Len(tbl) }

\* C20: no step removes a Document row or an Embedding row, so the stored
\* id sets only grow; and the id list a run writes with a rebuilt index
\* names every stored embedding, those of documents whose file is gone too.
C20_RowsNeverRemoved ==
    [][ /\ DOMAIN documents \subseteq DOMAIN documents'
        /\ EmbIds(emb_table) \subseteq EmbIds(emb_table')
        /\ (pc' = "done" /\ outcome' = "built")
           => /\ EmbIds(start_table') \subseteq EmbIds(emb_table')
              /\ EmbIds(emb_table') \subseteq SeqToSet(meta_file'.ids)
      ]_vars

\* An index was rebuilt by a run that did not scan a document whose file had
\* been deleted; the document still has its rows and is in the id list.
C20_Witness ==
    /\ pc = "done"
    /\ outcome = "built"
    /\ all_docs # << >>
    /\ \E p \in Paths :
          /\ corpus[p] = NoFile
          /\ \A k \in 1..Len(all_docs) : all_docs[k].doc.doc_id # AsPosix(p)
          /\ AsPosix(p) \in DOMAIN documents
          /\ AsPosix(p) \in EmbIds(emb_table)
          /\ AsPosix(p) \in SeqToSet(meta_file.ids)

\* A text with each newline replaced by a space; a text ending in '...'.
NewlinesToSpaces(s) == [k \in 1..Len(s) |-> IF s[k] = "\n" THEN " " ELSE s[k]]
EndsInEllipsis(s) ==
    Len(s) >= 3 /\ SubSeq(s, Len(s) - 2, Len(s)) = << ".", ".", "." >>

\* C21 as stated: the preview of a body longer than 400 characters is 400
\* characters long and ends in '...'; the preview of a body of at most 400
\* characters is the body with each newline replaced by a space, without
\* ellipsis; no preview is longer than 400 characters.
C21_PreviewOfBody ==
    (response # NoResponse)
    => \A i \in 1..Len(response.results) :
         LET preview == response.results[i].preview
             body == TextRead(response.results[i])
         IN  /\ Len(body) > PreviewMaxChars
                => (Len(preview) = PreviewMaxChars /\ EndsInEllipsis(preview))
             /\ Len(body) <= PreviewMaxChars
                => (preview = NewlinesToSpaces(body) /\ ~EndsInEllipsis(preview))
             /\ Len(preview) <= PreviewMaxChars

\* C21 amended: with the body first stripped of its leading and trailing
\* whitespace, the preview of a stripped body longer than 400 characters is
\* 400 characters long, its first 397 those of the stripped body with each
\* newline replaced by a space, its last three '...'; the preview of a
\* stripped body of at most 400 characters is the stripped body with each
\* newline replaced by a space; no preview is longer than 400 characters.
C21_PreviewOfStrippedBody ==
    (response # NoResponse)
    => \A i \in 1..Len(response.results) :
         LET preview == response.results[i].preview
             body == Strip(TextRead(response.results[i]))
         IN  /\ Len(body) > PreviewMaxChars
                => /\ Len(preview) = PreviewMaxChars
                   /\ EndsInEllipsis(preview)
                   /\ SubSeq(preview, 1, PreviewMaxChars - 3)
                        = SubSeq(NewlinesToSpaces(body), 1, PreviewMaxChars - 3)
             /\ Len(body) <= PreviewMaxChars
                => preview = NewlinesToSpaces(body)
             /\ Len(preview) <= PreviewMaxChars

\* A body of 500 characters holding a newline was previewed: 400 characters,
\* the newline a space, '...' at the end.
C21_Witness ==
    /\ response # NoResponse
    /\ Len(response.results) = 1
    /\ Len(TextRead(response.results[1])) = 500
    /\ TextRead(response.results[1])[2] = "\n"
    /\ Len(response.results[1].preview) = PreviewMaxChars
    /\ response.results[1].preview[2] = " "
    /\ EndsInEllipsis(response.results[1].preview)

====
